---- MODULE Spec2Model ----
(***************************************************************************)
(* Model of include_graph.py: the include-directive scanner (build_graph   *)
(* and process_line), the header/source merger (merge_header), the         *)
(* reachability extraction done in __main__ and the render records built   *)
(* by draw_graph.                                                          *)
(*                                                                         *)
(* A Python str is modelled as a sequence of one-character strings, so     *)
(* that endswith, startswith, rsplit, strip and the two regular            *)
(* expressions are computed on characters as the code computes them.       *)
(* A networkx DiGraph is a record [nodes, edges]: a set of node            *)
(* identities and a set of ordered pairs of them.                          *)
(***************************************************************************)
EXTENDS Integers, Sequences, FiniteSets

VARIABLES pc, args, include_graph, temp_g, target_graph, nodes, edges,
          files, fi, li, line

vars == <<pc, args, include_graph, temp_g, target_graph, nodes, edges,
          files, fi, li, line>>

-----------------------------------------------------------------------------
(* Bounds of the model *)

\* longest text after the directive keyword in the lines of SpecLine
MaxTail == 4
\* most lines in one scanned file of SpecScan
MaxLines == 2
\* most edges build_graph collects in Spec
MaxEdges == 3

-----------------------------------------------------------------------------
(* Python str operations *)

Whitespace == {" ", "\t"}

EndsWith(s, suffix) ==
    /\ Len(s) >= Len(suffix)
    /\ SubSeq(s, Len(s) - Len(suffix) + 1, Len(s)) = suffix

StartsWith(s, prefix) ==
    /\ Len(s) >= Len(prefix)
    /\ SubSeq(s, 1, Len(prefix)) = prefix

\* str.strip(): drop the leading and the trailing whitespace
Strip(s) ==
    LET inner == {i \in 1..Len(s) : s[i] \notin Whitespace}
    IN  IF inner = {} THEN <<>>
        ELSE LET first == CHOOSE i \in inner : \A j \in inner : i <= j
                 last  == CHOOSE i \in inner : \A j \in inner : j <= i
             IN  SubSeq(s, first, last)

\* s.rsplit('.', maxsplit=1)[0]: the text before the last '.', or s itself
RSplitDot(s) ==
    LET dots == {i \in 1..Len(s) : s[i] = "."}
    IN  IF dots = {} THEN s
        ELSE LET last == CHOOSE i \in dots : \A j \in dots : j <= i
             IN  SubSeq(s, 1, last - 1)

DotH == <<".", "h">>
DotCpp == <<".", "c", "p", "p">>
MergedMarker == <<"[", "m", "e", "r", "g", "e", "d", "]">>

get_prefix(node) ==
    IF EndsWith(node, DotH) \/ EndsWith(node, DotCpp)
    THEN RSplitDot(node)
    ELSE node

-----------------------------------------------------------------------------
(* networkx.DiGraph *)

EmptyGraph == [nodes |-> {}, edges |-> {}]

\* DiGraph.add_edge(u, v): both endpoints become nodes, the edge is kept once
add_edge(graph, u, v) ==
    [nodes |-> graph.nodes \cup {u, v}, edges |-> graph.edges \cup {<<u, v>>}]

-----------------------------------------------------------------------------
(* build_graph.process_line *)

LowerInclude == <<"i", "n", "c", "l", "u", "d", "e">>
UpperInclude == <<"I", "N", "C", "L", "U", "D", "E">>

\* re.match(r'#\s*(include|INCLUDE)', stripped_line) is not None
MatchesDirective(s) ==
    /\ Len(s) >= 1
    /\ s[1] = "#"
    /\ LET rest == SubSeq(s, 2, Len(s))
           nonws == {i \in 1..Len(rest) : rest[i] \notin Whitespace}
           k == IF nonws = {} THEN Len(rest) + 1
                ELSE CHOOSE i \in nonws : \A j \in nonws : i <= j
           word == SubSeq(rest, k, Len(rest))
       IN  StartsWith(word, LowerInclude) \/ StartsWith(word, UpperInclude)

OpenChars == {"<", "\""}
CloseChars == {"\"", ">"}

\* re.search('[<"](?P<include>.+)[">]', stripped_line): the leftmost position
\* of an opening character that has a closing character at least two
\* positions later; '.+' is greedy, so the group runs to the last closing
\* character.  The result is the set holding the group, empty for no match.
SearchInclude(s) ==
    LET starts == {i \in 1..Len(s) :
                      /\ s[i] \in OpenChars
                      /\ \E j \in (i + 2)..Len(s) : s[j] \in CloseChars}
    IN  IF starts = {} THEN {}
        ELSE LET i == CHOOSE a \in starts : \A b \in starts : a <= b
                 ends == {j \in (i + 2)..Len(s) : s[j] \in CloseChars}
                 j == CHOOSE a \in ends : \A b \in ends : b <= a
             IN  {SubSeq(s, i + 1, j - 1)}

process_line(graph, stripped_line, srcfile) ==
    IF ~MatchesDirective(stripped_line) THEN graph
    ELSE LET match == SearchInclude(stripped_line)
         IN  IF match = {} THEN graph
             ELSE LET included_file == CHOOSE m \in match : TRUE
                  IN  IF included_file = <<>> THEN graph
                      ELSE add_edge(graph, srcfile, included_file)

-----------------------------------------------------------------------------
(* SpecLine: one line of one file goes through line.strip() and            *)
(* process_line (include_graph.py line 47)                                 *)

MainCpp == <<"m", ".", "c", "p", "p">>

RECURSIVE SeqsUpTo(_, _)
SeqsUpTo(S, n) ==
    IF n = 0 THEN {<<>>}
    ELSE LET shorter == SeqsUpTo(S, n - 1)
         IN  shorter \cup {Append(t, c) : t \in shorter, c \in S}

Heads ==
    { <<"#">> \o LowerInclude,
      <<"#", " ", " ">> \o UpperInclude,
      <<"#", "\t">> \o LowerInclude,
      <<"/", "/", " ", "#">> \o LowerInclude,
      <<"#", "I", "n", "c", "l", "u", "d", "e">>,
      <<"#", "d", "e", "f", "i", "n", "e">>,
      LowerInclude }

TailChars == {"<", ">", "\"", "x", " "}

RawLines ==
    {lead \o head \o tail :
        lead \in {<<>>, <<" ">>}, head \in Heads,
        tail \in SeqsUpTo(TailChars, MaxTail)}

InitLine ==
    /\ pc = "line"
    /\ line \in RawLines
    /\ include_graph = EmptyGraph
    /\ args = [all |-> FALSE, nomerge |-> TRUE, showsuffix |-> FALSE,
               entryfile |-> MainCpp]
    /\ temp_g = {}
    /\ target_graph = {}
    /\ nodes = <<>>
    /\ edges = <<>>
    /\ files = <<>>
    /\ fi = 1
    /\ li = 1

ProcessLine ==
    /\ pc = "line"
    /\ include_graph' = process_line(include_graph, Strip(line), MainCpp)
    /\ pc' = "processed"
    /\ UNCHANGED <<args, temp_g, target_graph, nodes, edges, files, fi, li, line>>

NextLine == ProcessLine

SpecLine == InitLine /\ [][NextLine]_vars

-----------------------------------------------------------------------------
(* SpecScan: the loop of build_graph over the files and their lines        *)

AHeader == <<"a", ".", "h">>
BHeader == <<"b", ".", "h">>

\* chain(path.rglob('*.cpp'), path.rglob('*.h')): sources first, then headers
ScanOrder == <<MainCpp, AHeader>>

ScanLines ==
    { <<"#">> \o LowerInclude \o <<" ", "<">> \o AHeader \o <<">">>,
      <<" ", "#">> \o LowerInclude \o <<" ", "\"">> \o BHeader \o <<"\"">>,
      <<"i", "n", "t", " ", "x", ";">> }

\* A scanned file: its lines, and bad, the number of the read at which the
\* text decoder raises UnicodeDecodeError (0: the whole file decodes).  The
\* decoder works on buffered chunks, so the lines from bad on may be text
\* that was never handed to the loop.
FileContents ==
    {[lines |-> ls, bad |-> b] :
        ls \in SeqsUpTo(ScanLines, MaxLines), b \in 0..MaxLines}

InitScan ==
    /\ pc = "scan"
    /\ files \in {f \in [1..Len(ScanOrder) -> FileContents] :
                     \A i \in 1..Len(ScanOrder) : f[i].bad <= Len(f[i].lines)}
    /\ fi = 1
    /\ li = 1
    /\ include_graph = EmptyGraph
    /\ line = <<>>
    /\ args = [all |-> FALSE, nomerge |-> TRUE, showsuffix |-> FALSE,
               entryfile |-> MainCpp]
    /\ temp_g = {}
    /\ target_graph = {}
    /\ nodes = <<>>
    /\ edges = <<>>

\* faulty variant: the try inside the line loop, so only the bad read is skipped
AfterDecodeErrorSkipLine(f, l) == <<f, l + 1>>

\* except UnicodeDecodeError: pass -- the with block closes the file and
\* the outer for loop goes on with the first line of the next file
AfterDecodeError(f, l) == <<f + 1, 1>>

\* for line in f: process_line(include_graph, line.strip(), srcfile, path)
ReadLine ==
    /\ pc = "scan"
    /\ fi <= Len(files)
    /\ li <= Len(files[fi].lines)
    /\ li # files[fi].bad
    /\ line' = files[fi].lines[li]
    /\ include_graph' = process_line(include_graph, Strip(line'), ScanOrder[fi])
    /\ li' = li + 1
    /\ UNCHANGED <<pc, args, temp_g, target_graph, nodes, edges, files, fi>>

DecodeError ==
    /\ pc = "scan"
    /\ fi <= Len(files)
    /\ li <= Len(files[fi].lines)
    /\ li = files[fi].bad
    /\ fi' = AfterDecodeError(fi, li)[1]
    /\ li' = AfterDecodeError(fi, li)[2]
    /\ UNCHANGED <<pc, args, include_graph, temp_g, target_graph, nodes, edges,
                   files, line>>

EndOfFile ==
    /\ pc = "scan"
    /\ fi <= Len(files)
    /\ li > Len(files[fi].lines)
    /\ fi' = fi + 1
    /\ li' = 1
    /\ UNCHANGED <<pc, args, include_graph, temp_g, target_graph, nodes, edges,
                   files, line>>

\* return include_graph
ScanReturn ==
    /\ pc = "scan"
    /\ fi > Len(files)
    /\ pc' = "returned"
    /\ UNCHANGED <<args, include_graph, temp_g, target_graph, nodes, edges,
                   files, fi, li, line>>

NextScan == ReadLine \/ DecodeError \/ EndOfFile \/ ScanReturn

SpecScan == InitScan /\ [][NextScan]_vars

-----------------------------------------------------------------------------
(* networkx operations used by __main__ *)

Successors(G, S) == {e[2] : e \in {d \in G.edges : d[1] \in S}}

\* breadth-first search: every node is put in visited once
RECURSIVE bfs(_, _, _)
bfs(G, visited, frontier) ==
    IF frontier = {} THEN visited
    ELSE LET next == Successors(G, frontier) \ visited
         IN  bfs(G, visited \cup next, next)

\* faulty variant: a missing source is taken for a node without successors
descendants_raisesNever(G, source) == FALSE

\* nx.descendants raises NetworkXError when source is not a node of G
descendants_raises(G, source) == source \notin G.nodes

\* faulty variant: the direct successors only
descendantsOneStep(G, source) == Successors(G, {source}) \ {source}

\* nx.descendants(G, source): the nodes reachable from source, source excluded
descendants(G, source) == bfs(G, {source}, {source}) \ {source}

\* G.subgraph(nbunch): the subgraph induced on the nodes of nbunch that G has
subgraph(G, nbunch) ==
    LET kept == nbunch \cap G.nodes
    IN  [nodes |-> kept,
         edges |-> {e \in G.edges : e[1] \in kept /\ e[2] \in kept}]

-----------------------------------------------------------------------------
(* merge_header *)

\* the first loop: a prefix seen once maps to False, seen again to True
RECURSIVE can_merge_loop(_, _)
can_merge_loop(todo, can_merge) ==
    IF todo = {} THEN can_merge
    ELSE LET node == CHOOSE n \in todo : TRUE
             prefix == get_prefix(node)
         IN  can_merge_loop(todo \ {node},
                 [p \in DOMAIN can_merge \cup {prefix} |->
                     IF p = prefix THEN prefix \in DOMAIN can_merge
                     ELSE can_merge[p]])

\* faulty variant: both branches of the loop store False
can_mergeOfNever(graph) == [p \in {get_prefix(n) : n \in graph.nodes} |-> FALSE]

\* can_merge after the loop over graph.nodes()
can_mergeOf(graph) == can_merge_loop(graph.nodes, <<>>)

\* the second loop: one add_edge per edge of the input graph
merge_header(graph) ==
    LET can_merge == can_mergeOf(graph)
        new_edge(edge) ==
            LET prefix0 == get_prefix(edge[1])
                prefix1 == get_prefix(edge[2])
            IN  << IF can_merge[prefix0] THEN MergedMarker \o prefix0
                   ELSE edge[1],
                   IF can_merge[prefix1] THEN MergedMarker \o prefix1
                   ELSE edge[2] >>
        new_edges == {new_edge(edge) : edge \in graph.edges}
    IN  [nodes |-> {e[1] : e \in new_edges} \cup {e[2] : e \in new_edges},
         edges |-> new_edges]

-----------------------------------------------------------------------------
(* draw_graph *)

determ_category(node) ==
    IF EndsWith(node, <<"c", "p", "p">>) THEN 0
    ELSE IF EndsWith(node, <<"h">>) THEN 1
    ELSE IF StartsWith(node, MergedMarker) THEN 2
    ELSE 3

SIZE_FACTOR == 3

\* DiGraph.degree: in-degree plus out-degree, a self-loop counted twice
degree(graph, node) ==
    Cardinality({e \in graph.edges : e[1] = node})
        + Cardinality({e \in graph.edges : e[2] = node})

RECURSIVE Power(_, _)
Power(b, n) == IF n = 0 THEN 1 ELSE b * Power(b, n - 1)

\* ExpCeil[k] is the least integer that is at least e^k
ExpCeil == <<3, 8, 21, 55, 149, 404, 1097, 2981, 8104>>

\* math.floor(SIZE_FACTOR * math.log1p(degree)) + 1: k <= SIZE_FACTOR*ln(1+d)
\* exactly when e^k <= (1+d)^SIZE_FACTOR
calc_node_size(graph, node) ==
    LET d == degree(graph, node)
    IN  Cardinality({k \in DOMAIN ExpCeil :
                        ExpCeil[k] <= Power(1 + d, SIZE_FACTOR)}) + 1

get_node_name(node, show_suffix) ==
    IF show_suffix THEN node ELSE get_prefix(node)

\* the GraphNode list, one record per node of the graph
node_records(graph, show_suffix) ==
    [node \in graph.nodes |->
        [name |-> get_node_name(node, show_suffix),
         category |-> determ_category(node),
         symbol_size |-> calc_node_size(graph, node)]]

\* the GraphLink list, one record per edge of the graph
edge_records(graph, show_suffix) ==
    [edge \in graph.edges |->
        [source |-> get_node_name(edge[1], show_suffix),
         target |-> get_node_name(edge[2], show_suffix)]]

-----------------------------------------------------------------------------
(* Spec: __main__, from build_graph to draw_graph *)

ACpp == <<"a", ".", "c", "p", "p">>
ShHeader == <<"s", "h", ".", "h">>
ShBare == <<"s", "h">>

\* the files the scan finds: the includers
ScannedFiles == {MainCpp, AHeader, ACpp, ShHeader}
\* the texts found between the delimiters: files of the tree and other names
IncludedNames == ScannedFiles \cup {ShBare}
\* values of --entryfile
EntryFiles == {MainCpp, AHeader}

\* A graph variable of __main__ that is not bound yet is the empty set, a
\* bound one is the set holding its graph.
GraphOf(v) == CHOOSE g \in v : TRUE

Init ==
    /\ pc = "build"
    /\ args \in [all : BOOLEAN, nomerge : BOOLEAN, showsuffix : BOOLEAN,
                 entryfile : EntryFiles]
    /\ include_graph = EmptyGraph
    /\ temp_g = {}
    /\ target_graph = {}
    /\ nodes = <<>>
    /\ edges = <<>>
    /\ files = <<>>
    /\ fi = 1
    /\ li = 1
    /\ line = <<>>

\* build_graph: one call of process_line that reaches graph.add_edge
BuildEdge ==
    /\ pc = "build"
    /\ Cardinality(include_graph.edges) < MaxEdges
    /\ \E srcfile \in ScannedFiles, included_file \in IncludedNames :
          include_graph' = add_edge(include_graph, srcfile, included_file)
    /\ UNCHANGED <<pc, args, temp_g, target_graph, nodes, edges, files, fi, li,
                   line>>

\* include_graph = build_graph(path)
BuildReturn ==
    /\ pc = "build"
    /\ pc' = "extract"
    /\ UNCHANGED <<args, include_graph, temp_g, target_graph, nodes, edges,
                   files, fi, li, line>>

\* if args.all: temp_g = include_graph
ExtractAll ==
    /\ pc = "extract"
    /\ args.all
    /\ temp_g' = {include_graph}
    /\ pc' = "merge"
    /\ UNCHANGED <<args, include_graph, target_graph, nodes, edges, files, fi,
                   li, line>>

\* else: temp_g = include_graph.subgraph(chain([entryfile], nx.descendants(..)))
ExtractReachable ==
    /\ pc = "extract"
    /\ ~args.all
    /\ ~descendants_raises(include_graph, args.entryfile)
    /\ temp_g' = {subgraph(include_graph,
                      {args.entryfile}
                          \cup descendants(include_graph, args.entryfile))}
    /\ pc' = "merge"
    /\ UNCHANGED <<args, include_graph, target_graph, nodes, edges, files, fi,
                   li, line>>

\* nx.descendants raises; nothing catches it and the program ends with the
\* traceback, temp_g never bound
ExtractMissing ==
    /\ pc = "extract"
    /\ ~args.all
    /\ descendants_raises(include_graph, args.entryfile)
    /\ pc' = "error"
    /\ UNCHANGED <<args, include_graph, temp_g, target_graph, nodes, edges,
                   files, fi, li, line>>

\* if args.nomerge is False: target_graph = temp_g
SkipMerge ==
    /\ pc = "merge"
    /\ args.nomerge = FALSE
    /\ target_graph' = temp_g
    /\ pc' = "draw"
    /\ UNCHANGED <<args, include_graph, temp_g, nodes, edges, files, fi, li,
                   line>>

\* else: target_graph = merge_header(temp_g)
Merge ==
    /\ pc = "merge"
    /\ args.nomerge # FALSE
    /\ target_graph' = {merge_header(GraphOf(temp_g))}
    /\ pc' = "draw"
    /\ UNCHANGED <<args, include_graph, temp_g, nodes, edges, files, fi, li,
                   line>>

\* draw_graph(target_graph, ...): the node and edge records given to the chart
Draw ==
    /\ pc = "draw"
    /\ nodes' = node_records(GraphOf(target_graph), args.showsuffix)
    /\ edges' = edge_records(GraphOf(target_graph), args.showsuffix)
    /\ pc' = "done"
    /\ UNCHANGED <<args, include_graph, temp_g, target_graph, files, fi, li,
                   line>>

Next ==
    \/ BuildEdge
    \/ BuildReturn
    \/ ExtractAll
    \/ ExtractReachable
    \/ ExtractMissing
    \/ SkipMerge
    \/ Merge
    \/ Draw

Spec == Init /\ [][Next]_vars

-----------------------------------------------------------------------------
(* Properties of the reachability extraction *)

Extracted == pc \in {"merge", "draw", "done"} /\ ~args.all

\* the least set of nodes that holds entry and every successor of a member
ReachClosure(G, entry) ==
    LET Closed(S) == entry \in S /\ \A e \in G.edges : e[1] \in S => e[2] \in S
    IN  CHOOSE S \in SUBSET G.nodes :
            Closed(S) /\ \A T \in SUBSET G.nodes : Closed(T) => S \subseteq T

\* C1: in reachable-from mode the extracted graph has as nodes exactly the
\* entry and the nodes reachable from it along forward edges, and as edges
\* exactly the edges of the scanned graph between two such nodes, on cyclic
\* graphs too.
C1_ReachabilityExtraction ==
    Extracted =>
        LET R == ReachClosure(include_graph, args.entryfile)
        IN  /\ GraphOf(temp_g).nodes = R
            /\ GraphOf(temp_g).edges =
                  {e \in include_graph.edges : e[1] \in R /\ e[2] \in R}

\* an extraction from an entry that lies on a cycle, which leaves out a part
\* of the scanned graph
C1_Witness ==
    /\ Extracted
    /\ \E e \in GraphOf(temp_g).edges :
          e[2] = args.entryfile /\ e[1] # args.entryfile
    /\ include_graph.nodes \ GraphOf(temp_g).nodes # {}
    /\ include_graph.edges \ GraphOf(temp_g).edges # {}

\* C4: the extraction fails exactly when the entry is not a node of the
\* scanned graph, and then no graph is bound or passed on; an entry without
\* outgoing edges gives, without error, the graph whose only node is the entry.
C4_MissingEntry ==
    /\ pc = "error" =>
          /\ ~args.all
          /\ args.entryfile \notin include_graph.nodes
          /\ temp_g = {} /\ target_graph = {}
          /\ nodes = <<>> /\ edges = <<>>
    /\ Extracted =>
          /\ args.entryfile \in include_graph.nodes
          /\ temp_g # {}
          /\ (\A e \in include_graph.edges : e[1] # args.entryfile) =>
                temp_g = {[nodes |-> {args.entryfile}, edges |-> {}]}

\* the program ended in the error although the scan found edges
C4_Witness ==
    /\ pc = "error"
    /\ include_graph.edges # {}
    /\ args.entryfile \notin include_graph.nodes

-----------------------------------------------------------------------------
(* Properties of merge_header *)

Merged == pc \in {"draw", "done"} /\ args.nomerge

\* a stem shared by two distinct nodes of the graph
StemShared(graph, stem) ==
    \E n1, n2 \in graph.nodes :
        n1 # n2 /\ get_prefix(n1) = stem /\ get_prefix(n2) = stem

\* the endpoint substitution f of the merge
MergeImage(graph, n) ==
    IF StemShared(graph, get_prefix(n)) THEN MergedMarker \o get_prefix(n)
    ELSE n

\* C2: the edges of the merged graph are exactly the images of the input
\* edges under the substitution that maps a node whose stem is shared by two
\* distinct nodes of the input to '[merged]' + stem and any other node to
\* itself, each endpoint on its own.
C2_MergeEdgeMapping ==
    Merged =>
        GraphOf(target_graph).edges =
            {<<MergeImage(GraphOf(temp_g), e[1]), MergeImage(GraphOf(temp_g), e[2])>> :
                e \in GraphOf(temp_g).edges}

\* a merge with an edge that has one eligible endpoint, an edge that has
\* none, and two edges that fall onto one
C2_Witness ==
    /\ Merged
    /\ \E e \in GraphOf(temp_g).edges :
          /\ MergeImage(GraphOf(temp_g), e[1]) # e[1]
          /\ MergeImage(GraphOf(temp_g), e[2]) = e[2]
    /\ \E e \in GraphOf(temp_g).edges :
          /\ MergeImage(GraphOf(temp_g), e[1]) = e[1]
          /\ MergeImage(GraphOf(temp_g), e[2]) = e[2]
    /\ Cardinality(GraphOf(target_graph).edges)
          < Cardinality(GraphOf(temp_g).edges)

\* C3: merging a graph in which no stem is shared by two nodes returns a
\* graph with the same nodes and the same edges, nodes without an incident
\* edge included.
C3_MergeRoundTrip ==
    (Merged /\ \A n \in GraphOf(temp_g).nodes :
                   ~StemShared(GraphOf(temp_g), get_prefix(n))) =>
        /\ GraphOf(target_graph).nodes = GraphOf(temp_g).nodes
        /\ GraphOf(target_graph).edges = GraphOf(temp_g).edges

HasFileSuffix(n) == EndsWith(n, DotH) \/ EndsWith(n, DotCpp)

\* C5: a node without the suffix .cpp or .h is never merged: on every edge
\* endpoint where it stands, the merged graph has it unchanged.
C5_BareNamesNeverMerge ==
    Merged =>
        \A e \in GraphOf(temp_g).edges : \A k \in {1, 2} :
            ~HasFileSuffix(e[k]) =>
                \E d \in GraphOf(target_graph).edges :
                    /\ d[k] = e[k]
                    /\ d[3 - k] \in {e[3 - k], MergedMarker \o get_prefix(e[3 - k])}

\* C9: in reachable-from mode with merging on, the graph given to draw_graph
\* holds the entry or its merged identity.
C9_EntrySurvives ==
    (Extracted /\ Merged) =>
        \/ args.entryfile \in GraphOf(target_graph).nodes
        \/ MergedMarker \o get_prefix(args.entryfile) \in GraphOf(target_graph).nodes

-----------------------------------------------------------------------------
(* Properties of draw_graph *)

\* the category the identity's shape stands for
ShapeCategory(n) ==
    IF EndsWith(n, DotCpp) THEN 0
    ELSE IF EndsWith(n, DotH) THEN 1
    ELSE IF StartsWith(n, MergedMarker) THEN 2
    ELSE 3

\* C6: every node record has category 0 exactly for an identity with the
\* suffix .cpp, 1 exactly for the suffix .h, 2 exactly for a '[merged]' + stem
\* identity and 3 for any other.
C6_CategoryByShape ==
    pc = "done" => \A n \in DOMAIN nodes : nodes[n].category = ShapeCategory(n)

\* C10: distinct nodes have distinct display names, every edge record names
\* one node record at each end, and distinct edges give distinct records.
C10_RecordsKeepIdentity ==
    pc = "done" =>
        /\ \A n1, n2 \in DOMAIN nodes :
              n1 # n2 => nodes[n1].name # nodes[n2].name
        /\ \A e \in DOMAIN edges :
              /\ Cardinality({n \in DOMAIN nodes : nodes[n].name = edges[e].source}) = 1
              /\ Cardinality({n \in DOMAIN nodes : nodes[n].name = edges[e].target}) = 1
        /\ \A e1, e2 \in DOMAIN edges : e1 # e2 => edges[e1] # edges[e2]

-----------------------------------------------------------------------------
(* Properties of the scan *)

\* '#', whitespace, then the token
BeginsWithDirective(s) ==
    \E k \in 0..Len(s) : \E token \in {LowerInclude, UpperInclude} :
        /\ Len(s) >= k + 1 + Len(token)
        /\ s[1] = "#"
        /\ \A i \in 2..(k + 1) : s[i] \in Whitespace
        /\ SubSeq(s, k + 2, k + 1 + Len(token)) = token

\* a non-empty run between '<' and '>' or between two '"'
HasDelimitedRun(s) ==
    \E i, j \in 1..Len(s) :
        /\ j >= i + 2
        /\ \/ s[i] = "<" /\ s[j] = ">"
           \/ s[i] = "\"" /\ s[j] = "\""

\* the text from the first opening delimiter to the last closing delimiter
FirstToLast(s) ==
    LET opens == {i \in 1..Len(s) : s[i] \in OpenChars}
        closes == {j \in 1..Len(s) : s[j] \in CloseChars}
        i == CHOOSE a \in opens : \A b \in opens : a <= b
        j == CHOOSE a \in closes : \A b \in closes : b <= a
    IN  SubSeq(s, i + 1, j - 1)

IncludeX == <<"#">> \o LowerInclude \o <<" ", "<", "x", ">">>
IncludeXUpper == <<"#", " ", " ">> \o UpperInclude \o <<" ", "\"", "x", "\"">>
CommentedInclude == <<"/", "/", " ", "#">> \o LowerInclude \o <<" ", "<", "x", ">">>

\* C7: a line adds at most one edge, and adds one only when, trimmed, it
\* begins with '#', optional whitespace and include or INCLUDE and holds a
\* non-empty run between '<' and '>' or between two '"'; the name is the text
\* from the first opening to the last closing delimiter.
C7_DirectiveExtraction ==
    pc = "processed" =>
        LET s == Strip(line)
            E == include_graph.edges
        IN  /\ Cardinality(E) <= 1
            /\ E # {} =>
                  /\ BeginsWithDirective(s)
                  /\ HasDelimitedRun(s)
                  /\ E = {<<MainCpp, FirstToLast(s)>>}
            /\ s \in {IncludeX, IncludeXUpper} => E = {<<MainCpp, <<"x">>>>}
            /\ s = CommentedInclude => E = {}

\* the lines of file i that are read before a decode failure
ReadLines(i) ==
    IF files[i].bad = 0 THEN 1..Len(files[i].lines)
    ELSE 1..(files[i].bad - 1)

\* the edges of the first upto lines of file i, as far as they are read
EdgesOfFile(i, upto) ==
    UNION {process_line(EmptyGraph, Strip(files[i].lines[l]), ScanOrder[i]).edges :
              l \in ReadLines(i) \cap 1..upto}

\* C8: a decode failure does not end the scan; all through it the graph
\* holds exactly the edges of the lines read before a failure in the files
\* scanned so far, and the scan returns with every file scanned that way.
C8_DecodeRecovery ==
    /\ pc \in {"scan", "returned"}
    /\ pc = "returned" => fi = Len(files) + 1
    /\ include_graph.edges =
          UNION {EdgesOfFile(i, IF i < fi THEN Len(files[i].lines) ELSE li - 1) :
                    i \in {k \in 1..Len(files) : k <= fi}}

\* the scan returned after a failure at the second read of the first file:
\* the edge of its first line is kept, the edge its second line would have
\* given is absent, and the second file gave an edge
C8_Witness ==
    /\ pc = "returned"
    /\ files[1].bad = 2
    /\ EdgesOfFile(1, 1) # {}
    /\ ~(process_line(EmptyGraph, Strip(files[1].lines[2]), ScanOrder[1]).edges
            \subseteq include_graph.edges)
    /\ EdgesOfFile(2, Len(files[2].lines)) # {}

====
